---- MODULE Spec2Model ----
(***************************************************************************)
(* Model of src/rl_sar/scripts/convert_to_onnx.py: the command line        *)
(* (main), the single-file conversion (convert_pytorch_to_onnx) and the    *)
(* batch walk over the policy directory.                                   *)
(*                                                                         *)
(* A string is a sequence of one-character strings.  An optional value     *)
(* (Python's None or a value) is a sequence of length 0 or 1.              *)
(* The file system is a function from the absolute paths of the existing   *)
(* files to their contents, plus the set of existing directories; a        *)
(* relative path names the file it resolves to from the working directory. *)
(* The script is run from its own directory; __file__ is absolute or       *)
(* relative depending on the interpreter and the way the script is run.    *)
(* torch.jit.load, the forward pass, torch.onnx.export and the onnx        *)
(* checker are external: load and the forward pass are decided by the      *)
(* content of the file, the exporter and the verifier are nondeterministic.*)
(***************************************************************************)
EXTENDS Integers, Sequences, FiniteSets, TLC

VARIABLES
    cwd,            \* the working directory (absolute), the script's own directory
    script_dir,     \* os.path.dirname(__file__): '' or the script's directory
    argv,           \* the command line: model_path, input_size, output_path, batch_convert
    fs,             \* the files: absolute path -> content
    dirs,           \* the existing directories (the program creates none)
    pc,             \* the position of the program
    exit_status,    \* the process exit status, once exited (None before)
    call,           \* the locals of the running convert_pytorch_to_onnx call
    steps,          \* the external routines the running call has invoked, in order
    result,         \* the return value of the last convert_pytorch_to_onnx call
    fs0,            \* the files as they were when the running call started
    calls,          \* every call of convert_pytorch_to_onnx made so far (arguments)
    results,        \* the return values of the finished calls, in order
    todo,           \* os.walk: the directories still to visit
    root,           \* os.walk: the directory being visited
    files,          \* os.walk: the names of root's listing not yet iterated
    listed,         \* the paths of the files the walk has listed so far
    success_count,
    total_count

vars == <<cwd, script_dir, argv, fs, dirs, pc, exit_status, call, steps, result, fs0, calls, results,
          todo, root, files, listed, success_count, total_count>>

---------------------------------------------------------------------------
(* Optional values *)

None == <<>>
Some(x) == <<x>>
Val(o) == o[1]

---------------------------------------------------------------------------
(* Strings *)

PT == <<".", "p", "t">>
ONNX == <<".", "o", "n", "n", "x">>
SEP == <<"/">>

\* s[i..] starts with old
MatchAt(s, i, old) ==
    /\ i + Len(old) - 1 <= Len(s)
    /\ SubSeq(s, i, i + Len(old) - 1) = old

\* str.replace(old, new) for a nonempty old: every non-overlapping occurrence,
\* scanning from the left
RECURSIVE ReplaceFrom(_, _, _, _)
ReplaceFrom(s, i, old, new) ==
    IF i > Len(s) THEN <<>>
    ELSE IF MatchAt(s, i, old)
         THEN new \o ReplaceFrom(s, i + Len(old), old, new)
         ELSE <<s[i]>> \o ReplaceFrom(s, i + 1, old, new)

Replace(s, old, new) == ReplaceFrom(s, 1, old, new)

\* str.endswith
EndsWith(s, suf) ==
    /\ Len(s) >= Len(suf)
    /\ SubSeq(s, Len(s) - Len(suf) + 1, Len(s)) = suf

\* os.path.join(a, b): b alone when a is empty or b is absolute
Join(a, b) ==
    IF a = <<>> \/ (b # <<>> /\ b[1] = "/") THEN b ELSE a \o SEP \o b

\* the absolute path that p names in working directory c
AbsFrom(c, p) == Join(c, p)

\* p is an entry directly inside directory d
IsChild(d, p) ==
    /\ Len(p) > Len(d) + 1
    /\ SubSeq(p, 1, Len(d) + 1) = d \o SEP
    /\ \A i \in (Len(d) + 2)..Len(p) : p[i] # "/"

\* the name of entry p of directory d
ChildName(d, p) == SubSeq(p, Len(d) + 2, Len(p))

\* the index of the last "/" of p, 0 when there is none
RECURSIVE LastSep(_, _)
LastSep(p, i) ==
    IF i = 0 THEN 0
    ELSE IF p[i] = "/" THEN i ELSE LastSep(p, i - 1)

\* os.path.dirname
Dirname(p) ==
    IF LastSep(p, Len(p)) = 0 THEN <<>>
    ELSE IF LastSep(p, Len(p)) = 1 THEN SEP
    ELSE SubSeq(p, 1, LastSep(p, Len(p)) - 1)

\* all the orders in which the members of S can be listed
Orders(S) ==
    {sq \in [1..Cardinality(S) -> S] :
        \A i, j \in 1..Cardinality(S) : i # j => sq[i] # sq[j]}

---------------------------------------------------------------------------
(* The inputs: the command lines and the file systems the program is run on *)

\* the largest number of files present when the program starts
MaxFiles == 3

\* the directories the script may sit in (and be run from): one of them has
\* '.pt' in its name
Cwds == { <<"/", "s">>, <<"/", "x">> \o PT }

Policy == <<"p", "o", "l", "i", "c", "y">>

\* policy_dir = os.path.join(os.path.dirname(__file__), 'policy')
policy_dir == Join(script_dir, Policy)

\* the absolute path that p names
Abs(p) == AbsFrom(cwd, p)

Robot == Join(Policy, <<"g", "1">>)

ModelBin == <<"m", ".", "b", "i", "n">>

\* the files that may be present at the start, relative to the script's
\* directory
InitPaths ==
    { Join(Policy, <<"a">> \o PT),
      Join(Robot, <<"a">> \o PT),
      Join(Robot, <<"b">> \o PT \o PT),
      Join(Robot, <<"a">> \o ONNX),
      ModelBin }

\* what a file present at the start holds: a TorchScript model taking 45 or 48
\* observations, or something torch.jit.load rejects
InitContents == {"m45", "m48", "corrupt"}

ExplicitOut == <<"o", "u", "t">> \o ONNX

\* the model_path arguments: none, or a relative path as in the usage examples
ModelPathArgs ==
    {None, Some(ModelBin), Some(Join(Policy, <<"a">> \o PT)),
     Some(Join(Robot, <<"b">> \o PT \o PT))}
InputSizeArgs == {None, Some(45)}
OutputPathArgs == {None, Some(ExplicitOut)}

\* the command lines: main reads model_path only in single-file mode, so with
\* --batch_convert one given model_path stands for all
Args ==
    {a \in [model_path : ModelPathArgs, input_size : InputSizeArgs,
            output_path : OutputPathArgs, batch_convert : BOOLEAN] :
        a.batch_convert => a.model_path \in {None, Some(ModelBin)}}

\* the file systems holding at most MaxFiles of InitPaths under directory c
FileSystems(c) ==
    UNION {[ps -> InitContents] :
            ps \in {{AbsFrom(c, q) : q \in rel} :
                    rel \in {r \in SUBSET InitPaths : Cardinality(r) <= MaxFiles}}}

\* the policy tree under directory c: absent, without or with the robot's
\* directory
Trees(c) == {{}, {Join(c, Policy)}, {Join(c, Policy), Join(c, Robot)}}

\* the directory str.replace('.pt', '.onnx') turns c into
Mirror(c) == Replace(c, PT, ONNX)

\* the sets of existing directories: the root, the script's directory, its
\* policy tree, and, beside a script directory with '.pt' in its name, possibly
\* a directory tree under the name the replacement gives
DirSets(c) ==
    {{SEP, c} \cup t \cup m :
        t \in Trees(c),
        m \in IF Mirror(c) = c THEN {{}}
              ELSE {{}, {Mirror(c), Join(Mirror(c), Policy), Join(Mirror(c), Robot)}}}

\* the locals of convert_pytorch_to_onnx before any call
NoCall ==
    [model_path |-> <<>>, input_size |-> None, output_path |-> None,
     verify |-> "none"]

Init ==
    /\ cwd \in Cwds
    /\ script_dir \in {<<>>, cwd}
    /\ argv \in Args
    /\ fs \in FileSystems(cwd)
    /\ dirs \in DirSets(cwd)
    /\ \A p \in DOMAIN fs : Dirname(p) \in dirs
    /\ pc = "parse"
    /\ exit_status = None
    /\ call = NoCall
    /\ steps = <<>>
    /\ result = FALSE
    /\ fs0 = fs
    /\ calls = <<>>
    /\ results = <<>>
    /\ todo = <<>>
    /\ root = <<>>
    /\ files = {}
    /\ listed = {}
    /\ success_count = 0
    /\ total_count = 0

---------------------------------------------------------------------------
(* The command line *)

\* parser.parse_args(): model_path is a positional argument declared without
\* nargs, so a command line without it is rejected whatever the options
ParseAccepts(a) == a.model_path # None

\* argparse's exit status on a rejected command line (parser.error)
ArgparseErrorStatus == 2

ParseArgs ==
    /\ pc = "parse"
    /\ IF ParseAccepts(argv)
       THEN /\ pc' = "main"
            /\ UNCHANGED exit_status
       ELSE /\ pc' = "exited"
            /\ exit_status' = Some(ArgparseErrorStatus)
    /\ UNCHANGED <<cwd, script_dir, argv, fs, dirs, call, steps, result, fs0, calls, results,
                   todo, root, files, listed, success_count, total_count>>

---------------------------------------------------------------------------
(* convert_pytorch_to_onnx *)

\* the existence check left out
ExistsUnchecked(p) == TRUE

\* os.path.exists
Exists(p) == Abs(p) \in DOMAIN fs \/ Abs(p) \in dirs

\* output_path = model_path.replace('.pt', '.onnx')
DerivedOutput(model_path) == Replace(model_path, PT, ONNX)

\* the output path the call uses
OutputPath(c) ==
    IF c.output_path = None THEN DerivedOutput(c.model_path) ELSE Val(c.output_path)

\* input_size = 48 when none is given
DefaultInputSize == 48

InputSize(c) ==
    IF c.input_size = None THEN DefaultInputSize ELSE Val(c.input_size)

\* torch.jit.load(model_path) returns a model (and does not raise)
LoadOk(p) == Abs(p) \in DOMAIN fs /\ fs[Abs(p)] \in {"m45", "m48"}

\* the number of observations the model held by a file takes
ModelInputs(content) == IF content = "m45" THEN 45 ELSE 48

\* model(dummy_input) returns (no shape mismatch)
ForwardOk(p, size) == ModelInputs(fs[Abs(p)]) = size

\* the exporter can open its target for writing
Writable(p) == Abs(p) \notin dirs /\ Dirname(Abs(p)) \in dirs

\* the outcomes of torch.onnx.export: the file is written; it raises before
\* touching the target; it raises after it has opened the target
ExportOutcomes(p) ==
    IF Writable(p) THEN {"written", "raised", "raised_partial"} ELSE {"raised"}

\* the outcomes of the verification block
VerifyOutcomes == {"ok", "import_error", "load_raised", "check_raised"}

\* the call of convert_pytorch_to_onnx(model_path, input_size, output_path)
Enter(model_path, input_size, output_path) ==
    /\ call' = [model_path |-> model_path, input_size |-> input_size,
                output_path |-> output_path, verify |-> "none"]
    /\ calls' = Append(calls, [model_path |-> model_path,
                               input_size |-> input_size,
                               output_path |-> output_path])
    /\ steps' = <<>>
    /\ fs0' = fs
    /\ pc' = "conv_exists"

\* return v
Return(v) ==
    /\ result' = v
    /\ results' = Append(results, v)
    /\ pc' = "conv_ret"

\* the log of an external routine called with arg; ok: it did not raise
Invoke(op, arg, ok) == steps' = Append(steps, [op |-> op, arg |-> arg, ok |-> ok])

\* if not os.path.exists(model_path): return False
ConvExists ==
    /\ pc = "conv_exists"
    /\ IF Exists(call.model_path)
       THEN /\ pc' = "conv_load"
            /\ UNCHANGED <<result, results>>
       ELSE Return(FALSE)
    /\ UNCHANGED <<cwd, script_dir, argv, fs, dirs, exit_status, call, steps, fs0, calls,
                   todo, root, files, listed, success_count, total_count>>

\* model = torch.jit.load(model_path); model.eval()
ConvLoad ==
    /\ pc = "conv_load"
    /\ Invoke("load", call.model_path, LoadOk(call.model_path))
    /\ IF LoadOk(call.model_path)
       THEN /\ pc' = "conv_forward"
            /\ UNCHANGED <<result, results>>
       ELSE Return(FALSE)
    /\ UNCHANGED <<cwd, script_dir, argv, fs, dirs, exit_status, call, fs0, calls,
                   todo, root, files, listed, success_count, total_count>>

\* the forward pass with its failure swallowed: the export follows anyway
ConvForwardGoesOn ==
    /\ pc = "conv_forward"
    /\ steps' = Append(steps, [op |-> "forward", arg |-> call.model_path,
                               ok |-> ForwardOk(call.model_path, InputSize(call))])
    /\ pc' = "conv_export"
    /\ UNCHANGED <<cwd, script_dir, argv, fs, dirs, exit_status, call, result, fs0, calls, results,
                   todo, root, files, listed, success_count, total_count>>

\* output = model(dummy_input)
ConvForward ==
    /\ pc = "conv_forward"
    /\ Invoke("forward", call.model_path, ForwardOk(call.model_path, InputSize(call)))
    /\ IF ForwardOk(call.model_path, InputSize(call))
       THEN /\ pc' = "conv_export"
            /\ UNCHANGED <<result, results>>
       ELSE Return(FALSE)
    /\ UNCHANGED <<cwd, script_dir, argv, fs, dirs, exit_status, call, fs0, calls,
                   todo, root, files, listed, success_count, total_count>>

\* torch.onnx.export(model, dummy_input, output_path, ...)
ConvExport ==
    /\ pc = "conv_export"
    /\ \E o \in ExportOutcomes(OutputPath(call)) :
        /\ Invoke("export", OutputPath(call), o = "written")
        /\ fs' = CASE o = "written" ->
                        [p \in DOMAIN fs \cup {Abs(OutputPath(call))} |->
                            IF p = Abs(OutputPath(call)) THEN "onnx" ELSE fs[p]]
                   [] o = "raised_partial" ->
                        [p \in DOMAIN fs \cup {Abs(OutputPath(call))} |->
                            IF p = Abs(OutputPath(call)) THEN "partial" ELSE fs[p]]
                   [] OTHER -> fs
        /\ IF o = "written"
           THEN /\ pc' = "conv_verify"
                /\ UNCHANGED <<result, results>>
           ELSE Return(FALSE)
    /\ UNCHANGED <<cwd, script_dir, argv, dirs, exit_status, call, fs0, calls,
                   todo, root, files, listed, success_count, total_count>>

\* the routines of the onnx package reached under each outcome
VerifyInvokes(o, out) ==
    CASE o = "import_error" -> <<>>
      [] o = "load_raised" -> <<[op |-> "onnx.load", arg |-> out, ok |-> FALSE]>>
      [] OTHER -> <<[op |-> "onnx.load", arg |-> out, ok |-> TRUE],
                    [op |-> "onnx.checker.check_model", arg |-> out,
                     ok |-> (o = "ok")]>>

\* the verification block without its own try/except: a raise reaches the
\* outer handler
AfterVerifyPropagates(o) == o = "ok"

\* what the call returns after the verification block
AfterVerify(o) == TRUE

\* try: import onnx; onnx.load; check_model  except ImportError / Exception
\* return True
ConvVerify ==
    /\ pc = "conv_verify"
    /\ \E o \in VerifyOutcomes :
        /\ steps' = steps \o VerifyInvokes(o, OutputPath(call))
        /\ call' = [call EXCEPT !.verify = o]
        /\ Return(AfterVerify(o))
    /\ UNCHANGED <<cwd, script_dir, argv, fs, dirs, exit_status, fs0, calls,
                   todo, root, files, listed, success_count, total_count>>

---------------------------------------------------------------------------
(* main *)

\* the exit status not derived from the result
ExitCodeZero(success) == 0

\* sys.exit(0 if success else 1)
ExitCode(success) == IF success THEN 0 ELSE 1

\* the exit status of a process whose main returns
ReturnStatus == 0

\* the walk without its extension filter
IsAnyFile(file) == TRUE

\* file.endswith('.pt')
IsModelFile(file) == EndsWith(file, PT)

\* else: success = convert_pytorch_to_onnx(args.model_path, args.input_size,
\*                                         args.output_path)
MainSingle ==
    /\ pc = "main"
    /\ ~argv.batch_convert
    /\ Enter(Val(argv.model_path), argv.input_size, argv.output_path)
    /\ UNCHANGED <<cwd, script_dir, argv, fs, dirs, exit_status, result, results,
                   todo, root, files, listed, success_count, total_count>>

\* sys.exit(0 if success else 1)
SingleExit ==
    /\ pc = "conv_ret"
    /\ ~argv.batch_convert
    /\ exit_status' = Some(ExitCode(result))
    /\ pc' = "exited"
    /\ UNCHANGED <<cwd, script_dir, argv, fs, dirs, call, steps, result, fs0, calls, results,
                   todo, root, files, listed, success_count, total_count>>

\* if args.batch_convert: the policy directory is looked up; without it main
\* returns, with it the counters are reset and os.walk starts
MainBatch ==
    /\ pc = "main"
    /\ argv.batch_convert
    /\ IF Exists(policy_dir)
       THEN /\ pc' = "walk"
            /\ todo' = <<policy_dir>>
            /\ success_count' = 0
            /\ total_count' = 0
            /\ UNCHANGED exit_status
       ELSE /\ pc' = "exited"
            /\ exit_status' = Some(ReturnStatus)
            /\ UNCHANGED <<todo, success_count, total_count>>
    /\ UNCHANGED <<cwd, script_dir, argv, fs, dirs, call, steps, result, fs0, calls, results,
                   root, files, listed>>

\* the names of the members of paths that lie directly inside directory d
Entries(d, paths) == {ChildName(Abs(d), p) : p \in {q \in paths : IsChild(Abs(d), q)}}

\* os.walk yields the next directory: its listing is read now, its
\* subdirectories are visited next (in any order), before the directories
\* already waiting
WalkDir ==
    /\ pc = "walk"
    /\ todo # <<>>
    /\ root' = Head(todo)
    /\ files' = Entries(Head(todo), DOMAIN fs)
    /\ listed' = listed \cup {Join(Head(todo), f) : f \in Entries(Head(todo), DOMAIN fs)}
    /\ \E sub \in Orders({Join(Head(todo), d) : d \in Entries(Head(todo), dirs)}) :
        todo' = sub \o Tail(todo)
    /\ pc' = "files"
    /\ UNCHANGED <<cwd, script_dir, argv, fs, dirs, exit_status, call, steps, result, fs0, calls,
                   results, success_count, total_count>>

\* for file in files: if file.endswith('.pt'): total_count += 1 and the file
\* is converted with the command line's input_size and no output path
NextFile ==
    /\ pc = "files"
    /\ \E file \in files :
        /\ files' = files \ {file}
        /\ IF IsModelFile(file)
           THEN /\ total_count' = total_count + 1
                /\ Enter(Join(root, file), argv.input_size, None)
           ELSE UNCHANGED <<total_count, call, calls, steps, fs0, pc>>
    /\ UNCHANGED <<cwd, script_dir, argv, fs, dirs, exit_status, result, results,
                   todo, root, listed, success_count>>

\* the count incremented whatever the conversion returned
CountedAlways(count, v) == count + 1

\* the count after a conversion returned v
Counted(count, v) == IF v THEN count + 1 ELSE count

\* if convert_pytorch_to_onnx(...): success_count += 1
BatchReturn ==
    /\ pc = "conv_ret"
    /\ argv.batch_convert
    /\ success_count' = Counted(success_count, result)
    /\ pc' = "files"
    /\ UNCHANGED <<cwd, script_dir, argv, fs, dirs, exit_status, call, steps, result, fs0, calls,
                   results, todo, root, files, listed, total_count>>

\* the listing of the directory is exhausted
EndDir ==
    /\ pc = "files"
    /\ files = {}
    /\ pc' = "walk"
    /\ UNCHANGED <<cwd, script_dir, argv, fs, dirs, exit_status, call, steps, result, fs0, calls,
                   results, todo, root, files, listed, success_count, total_count>>

\* the walk is over: the summary line is printed and main returns
BatchDone ==
    /\ pc = "walk"
    /\ todo = <<>>
    /\ pc' = "exited"
    /\ exit_status' = Some(ReturnStatus)
    /\ UNCHANGED <<cwd, script_dir, argv, fs, dirs, call, steps, result, fs0, calls, results,
                   todo, root, files, listed, success_count, total_count>>

Next ==
    \/ ParseArgs
    \/ MainSingle
    \/ MainBatch
    \/ ConvExists
    \/ ConvLoad
    \/ ConvForward
    \/ ConvExport
    \/ ConvVerify
    \/ SingleExit
    \/ WalkDir
    \/ NextFile
    \/ BatchReturn
    \/ EndDir
    \/ BatchDone

Spec == Init /\ [][Next]_vars

---------------------------------------------------------------------------
(* Properties *)

\* a call of convert_pytorch_to_onnx has returned and no later one has started
Returned == pc \in {"conv_ret", "files", "walk", "exited"} /\ calls # <<>>

\* the running (or last) call invoked op and it did not raise
StepOk(op) == \E i \in 1..Len(steps) : steps[i].op = op /\ steps[i].ok

\* the running (or last) call invoked op and it raised
StepRaised(op) == \E i \in 1..Len(steps) : steps[i].op = op /\ ~steps[i].ok

\* the names of the routines a call may invoke, in the order of the source
StepOrder == <<"load", "forward", "export", "onnx.load", "onnx.checker.check_model">>

\* p lies under directory d, at any depth
Under(d, p) == Len(p) > Len(d) + 1 /\ SubSeq(p, 1, Len(d) + 1) = d \o SEP

\* the number of TRUE entries of a sequence of booleans
RECURSIVE CountTrue(_)
CountTrue(sq) ==
    IF sq = <<>> THEN 0
    ELSE (IF Head(sq) THEN 1 ELSE 0) + CountTrue(Tail(sq))

\* p with its last three characters replaced by '.onnx'
WithOnnxExtension(p) == SubSeq(p, 1, Len(p) - 3) \o ONNX

\* the batch walk has run to its end
BatchEnded ==
    /\ argv.batch_convert
    /\ pc = "exited"
    /\ exit_status = Some(ReturnStatus)
    /\ Abs(policy_dir) \in dirs

\* C1: once load, forward pass and export have all completed without raising,
\* the call returns True whatever the verification block did (import failed,
\* onnx.load raised, the checker raised, or all went well)
C1_VerificationNeverFlips ==
    (Returned /\ StepOk("load") /\ StepOk("forward") /\ StepOk("export"))
        => /\ result = TRUE
           /\ call.verify \in VerifyOutcomes

C1_Witness ==
    /\ pc = "conv_ret"
    /\ StepOk("export")
    /\ StepRaised("onnx.checker.check_model")
    /\ call.verify = "check_raised"
    /\ result = TRUE

\* C2: a call whose model_path did not exist when it started invokes no external
\* routine, leaves the files as they were, and returns False
C2_MissingSourceFails ==
    (pc \in {"conv_load", "conv_forward", "conv_export", "conv_verify", "conv_ret"}
     /\ Abs(call.model_path) \notin DOMAIN fs0 /\ Abs(call.model_path) \notin dirs)
        => /\ steps = <<>>
           /\ fs = fs0
           /\ pc = "conv_ret"
           /\ result = FALSE

C2_Witness ==
    /\ pc = "conv_ret"
    /\ ~argv.batch_convert
    /\ Abs(call.model_path) \notin DOMAIN fs0
    /\ DOMAIN fs0 # {}
    /\ result = FALSE

\* C3: the routines are invoked in the order load, forward, export, verifier,
\* none twice, and a load, forward pass or export that raised is the last
\* routine the call invokes, the call returning False
C3_OrderAndAbort ==
    /\ Len(steps) <= Len(StepOrder)
    /\ \A i \in 1..Len(steps) : steps[i].op = StepOrder[i]
    /\ \A i \in 1..Len(steps) :
        (steps[i].op \in {"load", "forward", "export"} /\ ~steps[i].ok)
            => /\ i = Len(steps)
               /\ Returned
               /\ result = FALSE

C3_Witness ==
    /\ pc = "conv_ret"
    /\ Len(steps) = 2
    /\ StepOk("load")
    /\ StepRaised("forward")
    /\ result = FALSE

\* C4: a call that returns True has added at most the file at its output path,
\* which then exists, and a call that returns False leaves the set of files as
\* it was when the call started
C4_FailureWritesNothing ==
    pc = "conv_ret"
        => IF result
           THEN /\ Abs(OutputPath(call)) \in DOMAIN fs
                /\ DOMAIN fs \ DOMAIN fs0 \subseteq {Abs(OutputPath(call))}
           ELSE DOMAIN fs = DOMAIN fs0

\* C5: with no output_path and a model_path ending in '.pt', the exporter's
\* target is the model_path with only that final '.pt' replaced by '.onnx'
C5_OnlyExtensionReplaced ==
    \A i \in 1..Len(steps) :
        (steps[i].op = "export" /\ call.output_path = None
         /\ EndsWith(call.model_path, PT))
            => steps[i].arg = WithOnnxExtension(call.model_path)

\* C6: in batch mode 0 <= success_count <= total_count throughout; between
\* conversions success_count is the number of calls that returned True and
\* total_count the number of calls made; when the batch ends every listed
\* directory is exhausted and total_count is the number of '.pt' files listed
C6_BatchCounts ==
    (argv.batch_convert /\ pc \notin {"parse", "main"} /\ Abs(policy_dir) \in dirs)
        => /\ 0 <= success_count
           /\ success_count <= total_count
           /\ total_count = Len(calls)
           /\ (pc \in {"files", "walk", "exited"}
                => /\ Len(results) = total_count
                   /\ success_count = CountTrue(results))
           /\ (pc = "exited"
                => /\ files = {} /\ todo = <<>>
                   /\ total_count = Cardinality({p \in listed : EndsWith(p, PT)}))

C6_Witness ==
    /\ BatchEnded
    /\ total_count = 3
    /\ success_count = 2
    /\ StepRaised("forward")

\* C7: in batch mode every call is made for a file whose name ends with '.pt',
\* with no output path and the command line's input_size, no file is converted
\* twice, and when the batch ends every '.pt' file under the policy directory
\* has been converted
C7_EachModelFileOnce ==
    argv.batch_convert
        => /\ \A i \in 1..Len(calls) :
                /\ EndsWith(calls[i].model_path, PT)
                /\ Under(policy_dir, calls[i].model_path)
                /\ calls[i].output_path = None
                /\ calls[i].input_size = argv.input_size
           /\ \A i, j \in 1..Len(calls) :
                Abs(calls[i].model_path) = Abs(calls[j].model_path) => i = j
           /\ BatchEnded
                => \A p \in DOMAIN fs :
                    (Under(Abs(policy_dir), p) /\ EndsWith(p, PT))
                        => \E i \in 1..Len(calls) : Abs(calls[i].model_path) = p

C7_Witness ==
    /\ BatchEnded
    /\ argv.output_path # None
    /\ argv.input_size # None
    /\ Len(calls) = 2
    /\ \E p \in listed : EndsWith(p, ONNX)

\* C8: once the command line is parsed, single-file mode exits 0 exactly when
\* the conversion returned True and 1 otherwise; batch mode exits 0 whatever
\* the conversions returned, and without a policy directory converts nothing
C8_ExitStatus ==
    (pc = "exited" /\ ParseAccepts(argv))
        => IF argv.batch_convert
           THEN /\ exit_status = Some(0)
                /\ (Abs(policy_dir) \notin dirs => calls = <<>>)
           ELSE /\ Len(results) = 1
                /\ exit_status = (IF results[1] THEN Some(0) ELSE Some(1))

C8_Witness ==
    /\ pc = "exited"
    /\ ~argv.batch_convert
    /\ results = <<FALSE>>
    /\ exit_status = Some(1)

\* C9: a command line with --batch_convert and no model_path is accepted and
\* runs the batch (exit status 0), and one with neither is rejected
C9_BatchNeedsNoModelPath ==
    (pc = "exited" /\ argv.model_path = None)
        => IF argv.batch_convert
           THEN exit_status = Some(ReturnStatus)
           ELSE exit_status = Some(ArgparseErrorStatus)

\* C10: with no output_path the exporter is never invoked with the source
\* file as its target
C10_SourceNotOverwritten ==
    \A i \in 1..Len(steps) :
        (steps[i].op = "export" /\ call.output_path = None)
            => Abs(steps[i].arg) # Abs(call.model_path)

====
